---- MODULE Spec2Model ----
(***************************************************************************)
(* A model of sgftools/leela.py: the CLI class that drives a Leela engine  *)
(* over GTP through non-blocking pipes.                                    *)
(*                                                                         *)
(* The client is one thread of control; the engine is a concurrent         *)
(* process.  Text is modelled line by line: a pipe is a sequence of lines, *)
(* and a line is a record whose "kind" says which of the source's regular  *)
(* expressions it matches.                                                 *)
(***************************************************************************)
EXTENDS Integers, Sequences, FiniteSets, TLC

VARIABLES
    history,            \* self.history: the recorded "play <color> <pos>" commands
    p,                  \* self.p: "None" or the Popen handle "proc"
    board_size,         \* self.board_size
    is_handicap_game,   \* self.is_handicap_game
    seconds_per_search, \* self.seconds_per_search (the budget plus one)
    verbosity,          \* self.verbosity
    engine,             \* the engine process: "none", "running", "stdin_closed", "exited"
    p_stdin,            \* the commands written to the engine's stdin, in order
    p_stdout,           \* lines in the engine's stdout pipe, not yet read
    p_stderr,           \* lines in the engine's stderr pipe, not yet read
    op,                 \* the CLI method in progress, "idle" between calls
    pc,                 \* the position inside the method in progress
    outcome,            \* how the last finished method ended: "return" or the error raised
    lastop,             \* the last finished method
    stops,              \* stop() calls since the last start() (observation only)
    acked,              \* commands the engine has answered, in the order written
    sc,                 \* the locals of send_command
    an,                 \* the locals of analyze
    pr                  \* the arguments and the result of parse

vars == <<history, p, board_size, is_handicap_game, seconds_per_search, verbosity, engine,
          p_stdin, p_stdout, p_stderr, op, pc, outcome, lastop, stops, acked,
          sc, an, pr>>

config == <<board_size, is_handicap_game, seconds_per_search, verbosity>>
pipes  == <<p_stdin, p_stdout, p_stderr>>

-----------------------------------------------------------------------------
(* Bounds of the model *)

\* lines of error text given to parse at most
MaxLines == 4
\* lines of a candidate table given to parse at most
MaxTable == 5
\* lines the engine reports on its error channel during one search, at most
MaxReport == 2
\* the largest board
MaxBoard == 25
\* lines an engine pipe (plus the text accumulated from it) holds at most
MaxBuf == 2
\* the largest expected_success_count a caller passes to send_command
MaxAcks == 2
\* the commands a caller writes to one engine process after start() at most
MaxWrites == 2
\* moves recorded in the history at most
MaxHist == 2
\* stop() calls in a row at most
MaxStops == 2
\* lines the engine writes to one channel while analyze() accumulates text, at most
MaxText == 1

(* Program constants *)

\* send_command's default timeout, in seconds
DefaultTimeout == 20
\* 1 / sleep_per_try: polls per second of timeout
TriesPerSecond == 10
\* the idle bound of analyze's polling loop: PollBase + seconds_per_search * PollFactor
PollBase == 20
PollFactor == 2
\* the second __init__ adds to the search budget
LagSeconds == 1

-----------------------------------------------------------------------------
(* Lines of text *)

\* stdout: the bare success marker "=", the reply "= D4" to genmove, anything else
AckLine      == [kind |-> "ack"]
MoveLine(c)  == [kind |-> "move", pos |-> c]
OtherLine    == [kind |-> "other"]

\* stderr while searching: "Nodes: 12, Win: 50.00% (MC:..%/VN:..%), PV: D4 Q16"
ProgressLine == [kind |-> "progress"]

OutLines == {AckLine, MoveLine(<<"D", 4>>), OtherLine}
ErrLines == {ProgressLine, OtherLine}

\* s.strip() == '=' : the line is the success marker and nothing else
IsMarker(s) == s.kind = "ack"

\* readline(fd) on a non-blocking pipe: the next line, or "" when there is none
NoLine == [kind |-> "empty"]
readline(fd) == IF fd = <<>> THEN NoLine ELSE Head(fd)

-----------------------------------------------------------------------------
(* The engine process *)

NoSend == [cmd |-> "", expected_success_count |-> 0, drain |-> TRUE, timeout |-> 0,
           tries |-> 0, success_count |-> 0, markers |-> 0, ret |-> "top"]
\* updated, stdout, stderr: the locals of analyze; the rest is observation only:
\* iters counts the poll iterations, quiet the latest iterations in a row that
\* drained no progress line, progress says a progress line was drained,
\* timed_out that the loop ended by its idle bound
NoAnalyze == [updated |-> 0, stdout |-> <<>>, stderr |-> <<>>,
              iters |-> 0, quiet |-> 0, progress |-> FALSE, timed_out |-> FALSE]
NoParse == [stdout |-> <<>>, stderr |-> <<>>, done |-> FALSE, result |-> <<>>]

\* analyze() is accumulating the text it drains
Accumulating == op = "analyze" /\ pc \in {"an_poll", "an_grace", "an_final"}

\* The engine writes a line to its stdout.
EngineOut(l) ==
    /\ engine \in {"running", "stdin_closed"}
    /\ Len(p_stdout) < MaxBuf
    /\ Accumulating => Len(p_stdout) + Len(an.stdout) < MaxText
    /\ p_stdout' = Append(p_stdout, l)
    /\ UNCHANGED <<history, p, config, engine, p_stdin, p_stderr, op, pc, outcome,
                   lastop, stops, acked, sc, an, pr>>

\* The engine writes a line to its stderr.
EngineErr(l) ==
    /\ engine \in {"running", "stdin_closed"}
    /\ Len(p_stderr) < MaxBuf
    /\ Accumulating => Len(p_stderr) + Len(an.stderr) < MaxText
    /\ p_stderr' = Append(p_stderr, l)
    /\ UNCHANGED <<history, p, config, engine, p_stdin, p_stdout, op, pc, outcome,
                   lastop, stops, acked, sc, an, pr>>

\* The engine closes its end of the stdin pipe and keeps running.
EngineCloseStdin ==
    /\ engine = "running"
    /\ engine' = "stdin_closed"
    /\ UNCHANGED <<history, p, config, pipes, op, pc, outcome, lastop, stops, acked, sc, an, pr>>

\* The engine exits on its own.
EngineExit ==
    /\ engine \in {"running", "stdin_closed"}
    /\ engine' = "exited"
    /\ UNCHANGED <<history, p, config, pipes, op, pc, outcome, lastop, stops, acked, sc, an, pr>>

-----------------------------------------------------------------------------
(* send_command *)

\* method `o` ends: it returns, or raises `res`
FinishAs(o, res) ==
    /\ op' = "idle"
    /\ pc' = "idle"
    /\ outcome' = res
    /\ lastop' = o

\* the method in progress ends
Finish(res) == FinishAs(op, res)

\* lines 112-115, called from method `o`: write the command, zero the counters;
\* `ret` is where the caller goes on when send_command returns
SendEnter(o, c, k, d, t, ret) ==
    IF p = "None"
    THEN FinishAs(o, "AttributeError") /\ UNCHANGED <<p_stdin, sc>>
    ELSE IF engine # "running"
    THEN FinishAs(o, "IOError") /\ UNCHANGED <<p_stdin, sc>>
    ELSE /\ p_stdin' = Append(p_stdin, c)
         /\ sc' = [cmd |-> c, expected_success_count |-> k, drain |-> d, timeout |-> t,
                   tries |-> 0, success_count |-> 0, markers |-> 0, ret |-> ret]
         /\ op' = o
         /\ pc' = "while"
         /\ UNCHANGED <<outcome, lastop>>

\* the commands start() writes (lines 148-150)
StartCmds == <<"boardsize", "komi", "time_settings">>

\* a caller's send_command(cmd, expected_success_count, drain, timeout)
Timeouts == {0, 1}
SendCmds == {"showboard", "clear_board"}

CallSend(c, k, d, t) ==
    /\ op = "idle"
    /\ Len(p_stdin) < Len(StartCmds) + MaxWrites
    /\ SendEnter("send_command", c, k, d, t, "top")
    /\ UNCHANGED <<history, p, config, engine, p_stdout, p_stderr, stops, acked, an, pr>>

\* line 116: while tries * sleep_per_try <= timeout
WhileCond(tries, timeout) == tries <= timeout * TriesPerSecond

\* line 116 and, when the loop ends, line 132
SendWhile ==
    /\ pc = "while"
    /\ IF WhileCond(sc.tries, sc.timeout)
       THEN pc' = "sleep" /\ UNCHANGED <<op, outcome, lastop>>
       ELSE Finish("CommandTimeout")
    /\ UNCHANGED <<history, p, config, engine, pipes, stops, acked, sc, an, pr>>

\* lines 117-118
SendSleep ==
    /\ pc = "sleep"
    /\ sc' = [sc EXCEPT !.tries = @ + 1]
    /\ pc' = "readline"
    /\ UNCHANGED <<history, p, config, engine, pipes, op, outcome, lastop, stops, acked, an, pr>>

\* lines 120-131: one turn of the readline loop.  When send_command returns, its
\* counters are gone; cmd, expected_success_count and markers stay for observation.
SendReadline ==
    /\ pc = "readline"
    /\ LET s     == readline(p_stdout)
           rest  == IF p_stdout = <<>> THEN <<>> ELSE Tail(p_stdout)
           count == IF IsMarker(s) THEN sc.success_count + 1 ELSE sc.success_count
           seen  == IF s.kind = "ack" THEN sc.markers + 1 ELSE sc.markers
       IN  IF IsMarker(s) /\ count >= sc.expected_success_count
           THEN \* lines 126-128: drain and return
                /\ sc' = [sc EXCEPT !.success_count = 0, !.tries = 0, !.markers = seen]
                /\ p_stdout' = IF sc.drain THEN <<>> ELSE rest
                /\ p_stderr' = IF sc.drain THEN <<>> ELSE p_stderr
                /\ IF sc.ret = "top"
                   THEN Finish("return")
                   ELSE pc' = sc.ret /\ UNCHANGED <<op, outcome, lastop>>
           ELSE /\ sc' = [sc EXCEPT !.success_count = count, !.markers = seen]
                /\ p_stdout' = rest
                /\ p_stderr' = p_stderr
                /\ pc' = IF s = NoLine THEN "while" ELSE "readline"
                /\ UNCHANGED <<op, outcome, lastop>>
    /\ UNCHANGED <<history, p, config, engine, p_stdin, stops, acked, an, pr>>

SendStep == SendWhile \/ SendSleep \/ SendReadline

-----------------------------------------------------------------------------
(* Coordinates *)

abet   == <<"a","b","c","d","e","f","g","h","i","j","k","l","m",
            "n","o","p","q","r","s","t","u","v","w","x","y","z">>
mapped == <<"a","b","c","d","e","f","g","h","j","k","l","m",
            "n","o","p","q","r","s","t","u","v","w","x","y","z">>
upper  == <<"A","B","C","D","E","F","G","H","I","J","K","L","M",
            "N","O","P","Q","R","S","T","U","V","W","X","Y","Z">>

\* str.index, 0-based; -1 stands for the ValueError of a letter that is not there
index(str, c) ==
    IF \E i \in 1..Len(str) : str[i] = c
    THEN (CHOOSE i \in 1..Len(str) : str[i] = c) - 1
    ELSE -1

\* str.lower() of one letter
lower(c) == IF index(upper, c) >= 0 THEN abet[index(upper, c) + 1] ELSE c

\* str[i] with Python's negative indices
at(str, i) ==
    IF 0 <= i /\ i < Len(str) THEN str[i + 1]
    ELSE IF -Len(str) <= i /\ i < 0 THEN str[Len(str) + i + 1]
    ELSE "IndexError"

\* convert_position: internal <<column letter, row letter>> to protocol <<letter, number>>
convert_position_plain(pos) == <<pos[1], board_size - index(abet, pos[2])>>
convert_position(pos) ==
    IF index(abet, pos[1]) < 0 \/ index(abet, pos[2]) < 0 THEN "ValueError"
    ELSE IF at(mapped, index(abet, pos[1])) = "IndexError" THEN "IndexError"
    ELSE <<at(mapped, index(abet, pos[1])), board_size - index(abet, pos[2])>>

\* parse_position: protocol <<letter, number>> to internal <<column letter, row letter>>
parse_position(pos) ==
    LET X == index(mapped, lower(pos[1]))
        Y == board_size - pos[2]
    IN  IF X < 0 THEN "ValueError"
        ELSE IF at(abet, Y) = "IndexError" THEN "IndexError"
        ELSE <<at(abet, X), at(abet, Y)>>

\* the error parse_position raises, "none" when it returns: a token without a row
\* number (int() of line 55 fails) or with a letter that is no column (line 54)
parse_position_raises(pos) ==
    IF Len(pos) < 2 THEN "ValueError"
    ELSE IF index(mapped, lower(pos[1])) < 0 THEN "ValueError"
    ELSE IF at(abet, board_size - pos[2]) = "IndexError" THEN "IndexError"
    ELSE "none"

\* the first error raised when the tokens are converted in order
RECURSIVE first_error(_)
first_error(tokens) ==
    IF tokens = <<>> THEN "none"
    ELSE IF parse_position_raises(Head(tokens)) # "none"
    THEN parse_position_raises(Head(tokens))
    ELSE first_error(Tail(tokens))

-----------------------------------------------------------------------------
(* The move history *)

Colors == {"black", "white"}

\* the command "play <color> <pos>" that add_move records
PlayCmd(color, pos) == [cmd |-> "play", color |-> color, pos |-> pos]

\* a position is the tuple of its characters: "" is <<>>, "tt" is <<"t", "t">>
PassToken == <<"pass">>

\* lines 67-71 of add_move
add_move_cmd(color, pos) ==
    IF pos = <<>> \/ pos = <<"t", "t">>
    THEN PlayCmd(color, PassToken)
    ELSE PlayCmd(color, convert_position(pos))

\* whoseturn: decided by the color in the last recorded command
whoseturn_of(h) ==
    IF Len(h) = 0
    THEN IF is_handicap_game THEN "white" ELSE "black"
    ELSE IF h[Len(h)].color = "white" THEN "black" ELSE "white"

whoseturn == whoseturn_of(history)

-----------------------------------------------------------------------------
(* parse *)

\* a percentage as the engine prints it, "<whole>.<two digits>"
Pct(whole, frac) == <<whole, frac>>

\* to_fraction, in units of 1/10000: the digits of "<whole>.<frac>" after "0.",
\* a one-digit whole part padded with a zero
to_fraction(v) ==
    IF v[1] < 100 THEN v[1] * 100 + v[2] ELSE (v[1] * 100 + v[2]) \div 10

One == 10000

\* lines 269-271
maybe_flip_never(winrate) == winrate
maybe_flip(winrate) == IF whoseturn = "white" THEN One - winrate ELSE winrate

\* the lines of the error channel that parse recognises
BannerLine        == [kind |-> "banner"]
BookLine(n, m)    == [kind |-> "book", bookmoves |-> n, positions |-> m]
StatusLine(a, b, c) == [kind |-> "status", mc |-> a, nn |-> b, score |-> c]
CandLine(c, v)    == [kind |-> "cand", pos |-> c, visits |-> v, W |-> Pct(52, 31),
                      U |-> Pct(51, 0), Vp |-> Pct(53, 62), Vn |-> 7, N |-> Pct(9, 5),
                      pv |-> <<c>>]
BestLine(c)       == [kind |-> "best", visits |-> 3, score |-> Pct(52, 31), pv |-> <<c>>]
SummaryLine(v)    == [kind |-> "summary", visits |-> v]

\* the key of line 330's sort for the declared best move (10^15 in the source, which
\* is beyond the model checker's integers; the model's visit counts stay below it)
BestKey == 1000000000

\* {} and dict[k] = v
EmptyDict == [k \in {} |-> 0]
put(d, k, v) == (k :> v) @@ d
has(d, k) == k \in DOMAIN d

\* lines 264-267: the first finished-move marker in the output text
chosen_of(stdout) ==
    IF \E i \in 1..Len(stdout) : stdout[i].kind = "move"
    THEN LET i == CHOOSE i \in 1..Len(stdout) :
                     /\ stdout[i].kind = "move"
                     /\ \A j \in 1..(i - 1) : stdout[j].kind # "move"
         IN  put(EmptyDict, "chosen", parse_position(stdout[i].pos))
    ELSE EmptyDict

\* line 267 raises what parse_position raises for that marker
chosen_raises(stdout) ==
    IF \E i \in 1..Len(stdout) : stdout[i].kind = "move"
    THEN LET i == CHOOSE i \in 1..Len(stdout) :
                     /\ stdout[i].kind = "move"
                     /\ \A j \in 1..(i - 1) : stdout[j].kind # "move"
         IN  parse_position_raises(stdout[i].pos)
    ELSE "none"

\* line 311: best-move and summary lines count after the banner, until the summary
summary_gate_banner_only(finished, summarized) == finished
summary_gate(finished, summarized) == finished /\ ~summarized

\* lines 276-320: the body of the scan loop, for one line
scan_line(st, line) ==
    LET fin == st.finished \/ line.kind = "banner"
        s1  == IF line.kind = "book"
               THEN put(put(st.stats, "bookmoves", line.bookmoves),
                        "positions", line.positions)
               ELSE st.stats
        s2  == IF line.kind = "status"
               THEN put(put(put(s1, "mc_winrate", maybe_flip(line.mc)),
                            "nn_winrate", maybe_flip(line.nn)), "margin", line.score)
               ELSE s1
        ml  == IF line.kind = "cand"
               THEN Append(st.move_list,
                           [pos |-> parse_position(line.pos), visits |-> line.visits,
                            winrate |-> maybe_flip(to_fraction(line.W)),
                            mc_winrate |-> maybe_flip(to_fraction(line.U)),
                            nn_winrate |-> maybe_flip(to_fraction(line.Vp)),
                            nn_count |-> line.Vn,
                            policy_prob |-> to_fraction(line.N),
                            pv |-> [i \in 1..Len(line.pv) |-> parse_position(line.pv[i])]])
               ELSE st.move_list
        gate == summary_gate(fin, st.summarized)
        s3  == IF gate /\ line.kind = "best"
               THEN put(put(s2, "best", parse_position(line.pv[1])),
                        "winrate", maybe_flip(to_fraction(line.score)))
               ELSE s2
        s4  == IF gate /\ line.kind = "summary"
               THEN put(s3, "visits", line.visits)
               ELSE s3
        err == IF line.kind = "cand" THEN first_error(<<line.pos>> \o line.pv)
               ELSE IF gate /\ line.kind = "best" THEN first_error(<<line.pv[1]>>)
               ELSE "none"
    IN  IF err # "none"
        THEN [st EXCEPT !.raises = err]
        ELSE [finished |-> fin,
              summarized |-> st.summarized \/ (gate /\ line.kind = "summary"),
              stats |-> s4, move_list |-> ml, raises |-> "none"]

RECURSIVE scan(_, _)
scan(st, lines) ==
    IF lines = <<>> \/ st.raises # "none" THEN st
    ELSE scan(scan_line(st, Head(lines)), Tail(lines))

\* line 330: the sort key
sort_key_visits(info, stats) == info.visits
sort_key(info, stats) == IF info.pos = stats["best"] THEN BestKey ELSE info.visits

\* sorted(..., reverse=True): descending by key, equal keys in their first order
RECURSIVE sorted_desc(_, _)
sorted_desc(l, stats) ==
    IF l = <<>> THEN <<>>
    ELSE LET x    == l[Len(l)]
             rest == sorted_desc(SubSeq(l, 1, Len(l) - 1), stats)
             n    == Cardinality({i \in 1..Len(rest) :
                                     sort_key(rest[i], stats) >= sort_key(x, stats)})
         IN  SubSeq(rest, 1, n) \o <<x>> \o SubSeq(rest, n + 1, Len(rest))

\* line 331: keep index 0 and the entries with visits
keep(l, i) == i = 1 \/ l[i].visits > 0

RECURSIVE prune_from(_, _)
prune_from(l, i) ==
    IF i > Len(l) THEN <<>>
    ELSE (IF keep(l, i) THEN <<l[i]>> ELSE <<>>) \o prune_from(l, i + 1)

\* lines 322-333: what parse returns, or the error it raises
finish_parse(st) ==
    IF st.raises # "none"
    THEN [raises |-> st.raises, stats |-> st.stats, move_list |-> st.move_list]
    ELSE
    IF has(st.stats, "bookmoves") /\ Len(st.move_list) = 0
    THEN IF has(st.stats, "chosen")
         THEN [raises |-> "none", stats |-> st.stats,
               move_list |-> <<[pos |-> st.stats["chosen"], is_book |-> TRUE]>>]
         ELSE [raises |-> "KeyError", stats |-> st.stats, move_list |-> <<>>]
    ELSE IF Len(st.move_list) > 0 /\ ~has(st.stats, "best")
         THEN [raises |-> "KeyError", stats |-> st.stats, move_list |-> st.move_list]
         ELSE [raises |-> "none", stats |-> st.stats,
               move_list |-> prune_from(sorted_desc(st.move_list, st.stats), 1)]

parse(stdout, stderr) ==
    finish_parse(scan([finished |-> FALSE, summarized |-> FALSE,
                       stats |-> IF chosen_raises(stdout) = "none"
                                 THEN chosen_of(stdout) ELSE EmptyDict,
                       move_list |-> <<>>, raises |-> chosen_raises(stdout)], stderr))

-----------------------------------------------------------------------------
(* start and stop *)

\* lines 140-145: Popen succeeds (the handle is stored) or raises OSError
CallStart(spawned) ==
    /\ op = "idle"
    /\ IF spawned
       THEN /\ p' = "proc"
            /\ engine' = "running"
            /\ p_stdin' = <<>> /\ p_stdout' = <<>> /\ p_stderr' = <<>>
            /\ op' = "start"
            /\ pc' = "start_boardsize"
            /\ stops' = 0
            /\ acked' = 0
            /\ UNCHANGED <<outcome, lastop>>
       ELSE /\ FinishAs("start", "OSError")
            /\ UNCHANGED <<p, engine, pipes, stops, acked>>
    /\ UNCHANGED <<history, config, sc, an, pr>>

\* lines 148-150: the three configuration commands, each waiting for its ack
StartSend ==
    /\ op = "start"
    /\ \/ pc = "start_boardsize"
          /\ SendEnter("start", "boardsize", 1, TRUE, DefaultTimeout, "start_komi")
       \/ pc = "start_komi"
          /\ SendEnter("start", "komi", 1, TRUE, DefaultTimeout, "start_time")
       \/ pc = "start_time"
          /\ SendEnter("start", "time_settings", 1, TRUE, DefaultTimeout, "start_end")
    /\ UNCHANGED <<history, p, config, engine, p_stdout, p_stderr, stops, acked, an, pr>>

\* start returns
StartEnd ==
    /\ op = "start"
    /\ pc = "start_end"
    /\ Finish("return")
    /\ UNCHANGED <<history, p, config, engine, pipes, stops, acked, sc, an, pr>>

\* line 158: what stop leaves in self.p
HandleAfterStop_kept == p
HandleAfterStop == "None"

\* lines 152-165
CallStop ==
    /\ op = "idle"
    /\ stops < MaxStops
    /\ stops' = stops + 1
    /\ pc' = "idle"
    /\ op' = "idle"
    /\ lastop' = "stop"
    /\ IF p # "None"
       THEN /\ p' = HandleAfterStop
            /\ IF engine = "running"
               THEN \* the write succeeds; terminate; both pipes are read empty
                    /\ p_stdin' = Append(p_stdin, "exit")
                    /\ engine' = "exited"
                    /\ p_stdout' = <<>>
                    /\ p_stderr' = <<>>
                    /\ outcome' = "return"
               ELSE \* line 159 raises: nobody reads the pipe
                    /\ outcome' = "IOError"
                    /\ UNCHANGED <<engine, pipes>>
       ELSE /\ outcome' = "return"
            /\ UNCHANGED <<p, engine, pipes>>
    /\ UNCHANGED <<history, config, acked, sc, an, pr>>

-----------------------------------------------------------------------------
(* The history methods and reset *)

\* the positions a caller passes to add_move: "", "dd"
MovePositions == {<<>>, <<"d", "d">>}

\* lines 66-72
AddMove(color, pos) ==
    /\ op = "idle"
    /\ Len(history) < MaxHist
    /\ history' = Append(history, add_move_cmd(color, pos))
    /\ FinishAs("add_move", "return")
    /\ UNCHANGED <<p, config, engine, pipes, stops, acked, sc, an, pr>>

\* lines 74-75
PopMove ==
    /\ op = "idle"
    /\ IF history = <<>>
       THEN FinishAs("pop_move", "IndexError") /\ UNCHANGED history
       ELSE /\ history' = SubSeq(history, 1, Len(history) - 1)
            /\ FinishAs("pop_move", "return")
    /\ UNCHANGED <<p, config, engine, pipes, stops, acked, sc, an, pr>>

\* lines 77-78
ClearHistory ==
    /\ op = "idle"
    /\ history' = <<>>
    /\ FinishAs("clear_history", "return")
    /\ UNCHANGED <<p, config, engine, pipes, stops, acked, sc, an, pr>>

\* lines 172-173
CallReset ==
    /\ op = "idle"
    /\ Len(p_stdin) < Len(StartCmds) + MaxWrites
    /\ SendEnter("reset", "clear_board", 1, TRUE, DefaultTimeout, "top")
    /\ UNCHANGED <<history, p, config, engine, p_stdout, p_stderr, stops, acked, an, pr>>

-----------------------------------------------------------------------------
(* analyze *)

\* lines 105-108 leave both pipes empty
Drained == p_stdout' = <<>> /\ p_stderr' = <<>>

\* lines 91-102: re.match looks for a progress line at the start of the drained text
parse_status_update(message) ==
    IF message # <<>> /\ message[1].kind = "progress"
    THEN [visits |-> 1] ELSE EmptyDict

\* re.search(finished_regex, text): some line is a finished-move marker
has_finished(text) == \E i \in 1..Len(text) : text[i].kind = "move"

\* line 203: the condition of the polling loop
PollCond_inclusive(updated) == updated <= PollBase + seconds_per_search * PollFactor
PollCond(updated) == updated < PollBase + seconds_per_search * PollFactor

\* lines 185-190: analyze begins; at verbosity > 1 it prints boardstate() first
CallAnalyze ==
    /\ op = "idle"
    /\ an' = NoAnalyze
    /\ IF verbosity > 1
       THEN SendEnter("analyze", "showboard", 1, FALSE, DefaultTimeout, "an_boardstate")
       ELSE SendEnter("analyze", "time_left black", 1, TRUE, DefaultTimeout, "an_time_white")
    /\ UNCHANGED <<history, p, config, engine, p_stdout, p_stderr, stops, acked, pr>>

\* lines 177-178 and 192: boardstate() drains, then the first time_left command
AnalyzeBoardstate ==
    /\ op = "analyze"
    /\ pc = "an_boardstate"
    /\ Drained
    /\ SendEnter("analyze", "time_left black", 1, TRUE, DefaultTimeout, "an_time_white")
    /\ UNCHANGED <<history, p, config, engine, stops, acked, an, pr>>

\* line 193
AnalyzeTimeWhite ==
    /\ op = "analyze"
    /\ pc = "an_time_white"
    /\ SendEnter("analyze", "time_left white", 1, TRUE, DefaultTimeout, "an_genmove")
    /\ UNCHANGED <<history, p, config, engine, p_stdout, p_stderr, stops, acked, an, pr>>

\* lines 195-201: genmove is written and not waited for
AnalyzeGenmove ==
    /\ op = "analyze"
    /\ pc = "an_genmove"
    /\ IF engine = "running"
       THEN /\ p_stdin' = Append(p_stdin, "genmove")
            /\ pc' = "an_poll"
            /\ UNCHANGED <<op, outcome, lastop>>
       ELSE Finish("IOError") /\ UNCHANGED p_stdin
    /\ UNCHANGED <<history, p, config, engine, p_stdout, p_stderr, stops, acked, sc, an, pr>>

\* lines 203-216: the loop condition and one iteration of the polling loop
AnalyzePoll ==
    /\ op = "analyze"
    /\ pc = "an_poll"
    /\ IF PollCond(an.updated)
       THEN LET O == p_stdout
                L == p_stderr
                D == parse_status_update(L)
                out == an.stdout \o O
            IN  /\ Drained
                /\ an' = [an EXCEPT
                            !.stdout = out,
                            !.stderr = an.stderr \o L,
                            !.updated = (IF has(D, "visits") THEN 0 ELSE @) + 1,
                            !.iters = @ + 1,
                            !.quiet = IF \E i \in 1..Len(L) : L[i].kind = "progress"
                                      THEN 0 ELSE @ + 1,
                            !.progress = @ \/ \E i \in 1..Len(L) : L[i].kind = "progress"]
                /\ pc' = IF has_finished(out) THEN "an_grace" ELSE "an_poll"
       ELSE /\ an' = [an EXCEPT !.timed_out = TRUE]
            /\ pc' = "an_grace"
            /\ UNCHANGED <<p_stdout, p_stderr>>
    /\ UNCHANGED <<history, p, config, engine, p_stdin, op, outcome, lastop, stops, acked, sc, pr>>

\* line 218: the trailing newline
AnalyzeGrace ==
    /\ op = "analyze"
    /\ pc = "an_grace"
    /\ IF engine = "running"
       THEN /\ p_stdin' = Append(p_stdin, "")
            /\ pc' = "an_final"
            /\ UNCHANGED <<op, outcome, lastop>>
       ELSE Finish("IOError") /\ UNCHANGED p_stdin
    /\ UNCHANGED <<history, p, config, engine, p_stdout, p_stderr, stops, acked, sc, an, pr>>

\* lines 220-232: the last drain, parse, the trace output, the result
AnalyzeFinal ==
    /\ op = "analyze"
    /\ pc = "an_final"
    /\ LET O == p_stdout
           L == p_stderr
           stderr == an.stderr \o O
           stdout == an.stdout \o L
           r == parse(stdout, stderr)
       IN  /\ Drained
           /\ pr' = [stdout |-> stdout, stderr |-> stderr, done |-> TRUE, result |-> r]
           /\ IF r.raises # "none" THEN Finish(r.raises)
              ELSE IF verbosity > 0 /\ ~has(r.stats, "chosen") THEN Finish("KeyError")
              ELSE Finish("return")
    /\ UNCHANGED <<history, p, config, engine, p_stdin, stops, acked, sc, an>>

AnalyzeStep ==
    \/ AnalyzeBoardstate
    \/ AnalyzeTimeWhite
    \/ AnalyzeGenmove
    \/ AnalyzePoll
    \/ AnalyzeGrace
    \/ AnalyzeFinal

-----------------------------------------------------------------------------
(* send_command on its own, against a running engine *)

InitRunning ==
    /\ history = <<>>
    /\ p = "proc"
    /\ board_size = 19
    /\ is_handicap_game = FALSE
    /\ seconds_per_search = 1
    /\ verbosity = 0
    /\ engine = "running"
    /\ p_stdin = StartCmds
    /\ p_stdout = <<>>
    /\ p_stderr = <<>>
    /\ op = "idle"
    /\ pc = "idle"
    /\ outcome = "return"
    /\ lastop = "none"
    /\ stops = 0
    /\ acked = Len(p_stdin)
    /\ sc = NoSend
    /\ an = NoAnalyze
    /\ pr = NoParse

NextSend ==
    \/ \E c \in SendCmds, k \in 0..MaxAcks, d \in BOOLEAN, t \in Timeouts :
           CallSend(c, k, d, t)
    \/ SendStep
    \/ \E l \in OutLines : EngineOut(l)

SpecSend == InitRunning /\ [][NextSend]_vars

\* the client is a running thread: it takes its next step
FairSend == SpecSend /\ WF_vars(SendStep)

-----------------------------------------------------------------------------
(* The history methods and reset, against a running engine *)

InitHist ==
    /\ history = <<>>
    /\ p = "proc"
    /\ board_size = 19
    /\ is_handicap_game \in BOOLEAN
    /\ seconds_per_search = 1
    /\ verbosity = 0
    /\ engine = "running"
    /\ p_stdin = StartCmds
    /\ p_stdout = <<>>
    /\ p_stderr = <<>>
    /\ op = "idle"
    /\ pc = "idle"
    /\ outcome = "return"
    /\ lastop = "start"
    /\ stops = 0
    /\ acked = Len(p_stdin)
    /\ sc = NoSend
    /\ an = NoAnalyze
    /\ pr = NoParse

NextHist ==
    \/ \E color \in Colors, pos \in MovePositions : AddMove(color, pos)
    \/ PopMove
    \/ ClearHistory
    \/ CallReset
    \/ SendStep
    \/ \E l \in {AckLine, OtherLine} : EngineOut(l)

SpecHist == InitHist /\ [][NextHist]_vars

-----------------------------------------------------------------------------
(* The life cycle: start, stop and the engine's own exit *)

InitNew ==
    /\ history = <<>>
    /\ p = "None"
    /\ board_size = 19
    /\ is_handicap_game = FALSE
    /\ seconds_per_search = 1
    /\ verbosity = 0
    /\ engine = "none"
    /\ p_stdin = <<>>
    /\ p_stdout = <<>>
    /\ p_stderr = <<>>
    /\ op = "idle"
    /\ pc = "idle"
    /\ outcome = "return"
    /\ lastop = "none"
    /\ stops = 0
    /\ acked = Len(p_stdin)
    /\ sc = NoSend
    /\ an = NoAnalyze
    /\ pr = NoParse

NextLife ==
    \/ \E spawned \in BOOLEAN : CallStart(spawned)
    \/ StartSend
    \/ StartEnd
    \/ SendStep
    \/ CallStop
    \/ \E l \in {AckLine, OtherLine} : EngineOut(l)
    \/ \E l \in {OtherLine} : EngineErr(l)
    \/ EngineCloseStdin
    \/ EngineExit

SpecLife == InitNew /\ [][NextLife]_vars

-----------------------------------------------------------------------------
(* analyze, against a running engine *)

\* the search budgets given to __init__
Budgets == {0, 1}

InitAnalyze ==
    /\ history = <<>>
    /\ p = "proc"
    /\ board_size = 19
    /\ is_handicap_game = FALSE
    /\ seconds_per_search \in {b + LagSeconds : b \in Budgets}
    /\ verbosity \in 0..2
    /\ engine = "running"
    /\ p_stdin = StartCmds
    /\ p_stdout = <<>>
    /\ p_stderr = <<>>
    /\ op = "idle"
    /\ pc = "idle"
    /\ outcome = "return"
    /\ lastop = "start"
    /\ stops = 0
    /\ acked = Len(p_stdin)
    /\ sc = NoSend
    /\ an = NoAnalyze
    /\ pr = NoParse

\* analyze() is called once, on the engine that start() left.  What the engine
\* writes after analyze() has ended is read by nobody, and what it writes to stderr
\* while a send_command polls is discarded by the drain that follows (line 127 or
\* line 177) before anything reads it: the engine's steps are left out there.
NextAnalyze ==
    \/ (lastop = "start" /\ CallAnalyze)
    \/ AnalyzeStep
    \/ SendStep
    \/ \E l \in OutLines : lastop = "start" /\ EngineOut(l)
    \/ \E l \in ErrLines :
           op = "analyze" /\ pc \notin {"while", "sleep", "readline"} /\ EngineErr(l)

SpecAnalyze == InitAnalyze /\ [][NextAnalyze]_vars

-----------------------------------------------------------------------------
(* parse on its own: the texts are drawn at the start, then parsed *)

SeqsUpTo(S, n) == UNION {[1..k -> S] : k \in 0..n}

InitParseWith(outs, errs) ==
    /\ history = <<>>
    /\ p = "None"
    /\ board_size = 19
    /\ is_handicap_game = FALSE
    /\ seconds_per_search = 1
    /\ verbosity = 0
    /\ engine = "none"
    /\ p_stdin = <<>>
    /\ p_stdout = <<>>
    /\ p_stderr = <<>>
    /\ op = "idle"
    /\ pc = "idle"
    /\ outcome = "return"
    /\ lastop = "none"
    /\ stops = 0
    /\ acked = Len(p_stdin)
    /\ sc = NoSend
    /\ an = NoAnalyze
    /\ \E o \in outs, e \in errs :
           pr = [stdout |-> o, stderr |-> e, done |-> FALSE, result |-> <<>>]

\* a call of parse(stdout, stderr)
CallParse ==
    /\ op = "idle"
    /\ ~pr.done
    /\ LET r == parse(pr.stdout, pr.stderr)
       IN  /\ pr' = [pr EXCEPT !.done = TRUE, !.result = r]
           /\ outcome' = IF r.raises = "none" THEN "return" ELSE r.raises
    /\ lastop' = "parse"
    /\ UNCHANGED <<history, p, config, engine, pipes, op, pc, stops, acked, sc, an>>

NextParse == CallParse

\* every kind of summary line present or absent, with and without candidate lines
\* and a chosen move
FieldLines ==
    {BannerLine, BookLine(1, 2), StatusLine(4800, 5100, "B+0.5"),
     BestLine(<<"D", 4>>), SummaryLine(3),
     CandLine(<<"D", 4>>, 1), CandLine(<<"Q", 16>>, 2)}

InitParse ==
    InitParseWith({<<>>, <<MoveLine(<<"D", 4>>)>>}, SeqsUpTo(FieldLines, MaxLines))

SpecParse == InitParse /\ [][NextParse]_vars

\* candidate tables: the declared best move D4 with few visits, another move with
\* any visit count, each line possibly repeated
TableLines ==
    {BannerLine, BestLine(<<"D", 4>>)}
    \cup {CandLine(<<"D", 4>>, v) : v \in 0..1}
    \cup {CandLine(<<"Q", 16>>, v) : v \in 0..2}

InitTable ==
    InitParseWith({<<MoveLine(<<"D", 4>>)>>}, SeqsUpTo(TableLines, MaxTable))

SpecTable == InitTable /\ [][NextParse]_vars

-----------------------------------------------------------------------------
(* goto_position: the recorded history is replayed to the engine *)

\* lines 180-183: the history joined by newlines is one command, and one
\* acknowledgment is expected for every entry
CallGoto ==
    /\ op = "idle"
    /\ Len(p_stdin) < Len(StartCmds) + MaxWrites
    /\ SendEnter("goto_position", history, Len(history), TRUE, DefaultTimeout, "top")
    /\ UNCHANGED <<history, p, config, engine, p_stdout, p_stderr, stops, acked, an, pr>>

NextGoto ==
    \/ \E color \in Colors, pos \in MovePositions : AddMove(color, pos)
    \/ CallGoto
    \/ SendStep
    \/ \E l \in {AckLine, OtherLine} : EngineOut(l)

SpecGoto == InitHist /\ [][NextGoto]_vars

-----------------------------------------------------------------------------
(* parse called twice on the same texts, with one move recorded in between *)

\* the caller keeps what parse returned, with the side that was to move, and is
\* ready to call parse again on the same texts
KeepResult ==
    /\ op = "idle"
    /\ pr.done
    /\ "earlier" \notin DOMAIN pr
    /\ pr' = [stdout |-> pr.stdout, stderr |-> pr.stderr, done |-> FALSE, result |-> <<>>,
              earlier |-> [turn |-> whoseturn, result |-> pr.result]]
    /\ UNCHANGED <<history, p, config, engine, pipes, op, pc, outcome, lastop, stops, acked, sc, an>>

\* winrates and the other fields of the status, best-move, summary and candidate lines
FlipLines ==
    {BannerLine, StatusLine(4800, 5100, "B+0.5"), BestLine(<<"D", 4>>), SummaryLine(3),
     CandLine(<<"D", 4>>, 1), CandLine(<<"Q", 16>>, 2)}

InitFlip ==
    InitParseWith({<<MoveLine(<<"D", 4>>)>>}, SeqsUpTo(FlipLines, MaxLines))

NextFlip ==
    \/ CallParse
    \/ KeepResult
    \/ \E color \in Colors :
           "earlier" \in DOMAIN pr /\ ~pr.done /\ history = <<>> /\ AddMove(color, <<>>)

SpecFlip == InitFlip /\ [][NextFlip]_vars

-----------------------------------------------------------------------------
(* The coordinate conversions: every reply move the engine can write on a board *)

\* the column letters as the engine writes them: upper case, without "I"
EngineLetters == [i \in 1..Len(mapped) |-> upper[index(abet, mapped[i]) + 1]]

\* the protocol coordinates of an n x n board
ProtocolCoords(n) ==
    {<<EngineLetters[i], r>> : i \in 1..(IF n < Len(mapped) THEN n ELSE Len(mapped)), r \in 1..n}

InitCoord ==
    /\ history = <<>>
    /\ p = "None"
    /\ board_size \in 1..MaxBoard
    /\ is_handicap_game = FALSE
    /\ seconds_per_search = 1
    /\ verbosity = 0
    /\ engine = "none"
    /\ p_stdin = <<>>
    /\ p_stdout = <<>>
    /\ p_stderr = <<>>
    /\ op = "idle"
    /\ pc = "idle"
    /\ outcome = "return"
    /\ lastop = "none"
    /\ stops = 0
    /\ acked = Len(p_stdin)
    /\ sc = NoSend
    /\ an = NoAnalyze
    /\ \E q \in ProtocolCoords(board_size) :
           pr = [stdout |-> <<MoveLine(q)>>, stderr |-> <<>>, done |-> FALSE, result |-> <<>>]

SpecCoord == InitCoord /\ [][NextParse]_vars

-----------------------------------------------------------------------------
(* Passes: recorded by add_move, and written by the engine *)

\* the engine's reply "= pass" to genmove: neither the bare marker nor a match of
\* the finished-move expression '= [A-Z][0-9]+'
PassReplyLine == [kind |-> "passmove"]

\* a line whose principal variation is the given tokens
WithPV(line, pv) == [line EXCEPT !.pv = pv]

PassLines ==
    {BannerLine, BestLine(<<"D", 4>>), WithPV(BestLine(<<"D", 4>>), <<PassToken, <<"D", 4>>>>),
     CandLine(<<"D", 4>>, 1), WithPV(CandLine(<<"D", 4>>, 1), <<<<"D", 4>>, PassToken>>)}

PassPositions == MovePositions \cup {<<"t", "t">>}

InitPass ==
    InitParseWith({<<>>, <<MoveLine(<<"D", 4>>)>>, <<PassReplyLine>>},
                  SeqsUpTo(PassLines, MaxLines))

NextPass ==
    \/ CallParse
    \/ \E color \in Colors, pos \in PassPositions : pr.done /\ AddMove(color, pos)

SpecPass == InitPass /\ [][NextPass]_vars

-----------------------------------------------------------------------------
(* The polling loop of analyze on its own: the engine reports while it searches *)

\* the engine writes a line of its search report to stderr
EngineReport(l) ==
    /\ engine = "running"
    /\ Accumulating
    /\ Len(p_stderr) + Len(an.stderr) < MaxReport
    /\ p_stderr' = Append(p_stderr, l)
    /\ UNCHANGED <<history, p, config, engine, p_stdin, p_stdout, op, pc, outcome,
                   lastop, stops, acked, sc, an, pr>>

\* analyze() has written genmove (line 196) after its two acknowledged time_left
\* commands, and enters the polling loop
InitPolling ==
    /\ history = <<>>
    /\ p = "proc"
    /\ board_size = 19
    /\ is_handicap_game = FALSE
    /\ seconds_per_search = LagSeconds
    /\ verbosity = 0
    /\ engine = "running"
    /\ p_stdin = StartCmds \o <<"time_left black", "time_left white", "genmove">>
    /\ p_stdout = <<>>
    /\ p_stderr = <<>>
    /\ op = "analyze"
    /\ pc = "an_poll"
    /\ outcome = "return"
    /\ lastop = "start"
    /\ stops = 0
    /\ acked = Len(p_stdin) - 1
    /\ sc = [cmd |-> "time_left white", expected_success_count |-> 1, drain |-> TRUE,
             timeout |-> DefaultTimeout, tries |-> 0, success_count |-> 0, markers |-> 1,
             ret |-> "an_genmove"]
    /\ an = NoAnalyze
    /\ pr = NoParse

NextPolling ==
    \/ AnalyzePoll
    \/ AnalyzeGrace
    \/ AnalyzeFinal
    \/ \E l \in ErrLines : EngineReport(l)
    \/ \E l \in {MoveLine(<<"D", 4>>)} : EngineOut(l)

SpecPolling == InitPolling /\ [][NextPolling]_vars

-----------------------------------------------------------------------------
(* parse on summary blocks: banners, best-move lines and summary lines in any order *)

GateLines ==
    {BannerLine, BestLine(<<"D", 4>>), [BestLine(<<"Q", 16>>) EXCEPT !.score = Pct(47, 69)],
     SummaryLine(3), SummaryLine(5)}

InitGate ==
    InitParseWith({<<MoveLine(<<"D", 4>>)>>}, SeqsUpTo(GateLines, MaxLines))

SpecGate == InitGate /\ [][NextParse]_vars

-----------------------------------------------------------------------------
(* send_command against an engine that answers every command once, in order *)

\* the engine answers the next command it has not answered yet with "="
EngineAnswer ==
    /\ engine = "running"
    /\ acked < Len(p_stdin)
    /\ Len(p_stdout) < MaxBuf
    /\ acked' = acked + 1
    /\ p_stdout' = Append(p_stdout, AckLine)
    /\ UNCHANGED <<history, p, config, engine, p_stdin, p_stderr, op, pc, outcome,
                   lastop, stops, sc, an, pr>>

\* every command is one line and expects one acknowledgment
NextAnswered ==
    \/ \E c \in SendCmds, d \in BOOLEAN, t \in Timeouts : CallSend(c, 1, d, t)
    \/ SendStep
    \/ EngineAnswer

SpecAnswered == InitRunning /\ [][NextAnswered]_vars

-----------------------------------------------------------------------------
(* Claims about send_command *)

\* C1 (ack gating): send_command(cmd, expected_success_count = k) returns only
\* after it has read k lines that are exactly "=" since the command was written,
\* and it does not sleep or poll again once that count is satisfied.
C1_AckGating ==
    /\ (op = "idle" /\ lastop = "send_command" /\ outcome = "return")
           => sc.markers >= sc.expected_success_count
    /\ (op = "send_command" /\ pc \in {"while", "sleep"})
           => sc.markers < sc.expected_success_count

\* C2 (termination): every send_command call ends, by returning or by the
\* command-timeout error, within timeout / 0.1 + 1 outer poll iterations, whatever
\* the engine emits.
C2_SendTerminates ==
    /\ [](op = "send_command" => sc.tries <= sc.timeout * TriesPerSecond + 1)
    /\ ((op = "send_command") ~> (op = "idle"))

-----------------------------------------------------------------------------
(* Claims about analyze *)

\* C3: when the polling loop ended by its idle bound, without a finished-move
\* marker in the accumulated output text, analyze() ends with an analysis-timeout
\* error: it returns no (stats, move list) result and reports no chosen move.
C3_TimeoutIsFailure ==
    (op = "idle" /\ lastop = "analyze" /\ an.timed_out)
        => /\ outcome = "AnalysisTimeout"
           /\ ~pr.done

\* C4 (timeout termination): as long as no progress line has come from the error
\* channel, the polling loop has made at most 20 + 2 * seconds_per_search
\* iterations, and it is left once it has made that many.
C4_PollBound ==
    (op = "analyze" /\ ~an.progress)
        => /\ an.iters <= PollBase + PollFactor * seconds_per_search
           /\ (pc = "an_poll" /\ an.iters = PollBase + PollFactor * seconds_per_search)
                  => ~ENABLED (AnalyzePoll /\ pc' = "an_poll")

\* C4 witness: the loop was left by its bound after exactly that many silent iterations
C4_Witness ==
    /\ op = "analyze"
    /\ pc = "an_grace"
    /\ an.timed_out
    /\ ~an.progress
    /\ ~has_finished(an.stdout)
    /\ an.iters = PollBase + PollFactor * seconds_per_search

-----------------------------------------------------------------------------
(* Claims about the history *)

OtherColor(c) == IF c = "white" THEN "black" ELSE "white"
OpeningColor == IF is_handicap_game THEN "white" ELSE "black"

\* C5 (turn alternation): after any sequence of add_move, pop_move and
\* clear_history, whoseturn() depends only on the parity of the history length and
\* the handicap flag, whatever the recorded moves are.
C5_TurnByParity ==
    whoseturn = IF Len(history) % 2 = 0 THEN OpeningColor ELSE OtherColor(OpeningColor)

\* C10: when reset() has returned, the history is empty (whoseturn() reports the
\* opening player) and clear_board was the last command written and acknowledged.
C10_ResetClears ==
    (op = "idle" /\ lastop = "reset" /\ outcome = "return")
        => /\ history = <<>>
           /\ whoseturn = OpeningColor
           /\ p_stdin[Len(p_stdin)] = "clear_board"
           /\ sc.markers >= 1

-----------------------------------------------------------------------------
(* Claims about parse *)

\* the candidate-move lines of a text that name position `c` (in internal coordinates)
cand_lines(text, c) ==
    {i \in 1..Len(text) : text[i].kind = "cand" /\ parse_position(text[i].pos) = c}

\* the returned list has `best` at index 0, the rest in non-increasing visit order,
\* and visits > 0 at every index >= 1
best_first(ml, best) ==
    /\ Len(ml) > 0
    /\ ml[1].pos = best
    /\ \A i \in 2..(Len(ml) - 1) : ml[i].visits >= ml[i + 1].visits
    /\ \A i \in 2..Len(ml) : ml[i].visits > 0

\* C6 as stated: for every error text with candidate-move lines and a post-banner
\* best-move line, the list parse returns has the declared best move at index 0,
\* the remaining entries in non-increasing visit order and visits > 0 at every
\* index >= 1.
C6_OrderingAsStated ==
    (/\ pr.done
     /\ \E i \in 1..Len(pr.stderr) : pr.stderr[i].kind = "cand"
     /\ has(pr.result.stats, "best"))
        => /\ pr.result.raises = "none"
           /\ best_first(pr.result.move_list, pr.result.stats["best"])

\* C6 amended: the same, for the error texts in which exactly one candidate-move
\* line names the declared best move.
C6_Ordering ==
    (/\ pr.done
     /\ has(pr.result.stats, "best")
     /\ Cardinality(cand_lines(pr.stderr, pr.result.stats["best"])) = 1)
        => /\ pr.result.raises = "none"
           /\ best_first(pr.result.move_list, pr.result.stats["best"])

\* C6 witness: the best move, with no visits, was listed first and sorted ahead of
\* two entries with visits, which were listed in ascending order
C6_Witness ==
    /\ pr.done
    /\ pr.result.raises = "none"
    /\ has(pr.result.stats, "best")
    /\ Cardinality(cand_lines(pr.stderr, pr.result.stats["best"])) = 1
    /\ pr.stderr[Len(pr.stderr)].kind = "cand"
    /\ pr.stderr[Len(pr.stderr)].visits = 2
    /\ Len(pr.result.move_list) = 3
    /\ pr.result.move_list[1].visits = 0
    /\ pr.result.move_list[2].visits = 2
    /\ pr.result.move_list[3].visits = 1

\* C7 (missing-field policy): parse returns a (stats, candidate list) pair for every
\* output and error text; it never raises because a summary field is absent.
C7_NeverRaises == pr.done => pr.result.raises = "none"

-----------------------------------------------------------------------------
(* Claims about stop *)

\* C8 (stop is idempotent): a stop() that follows a stop(), or that comes before any
\* start(), writes to no process, terminates none, raises nothing and leaves the
\* client unchanged; the handle is cleared once a stop() has been called.
C8_StopIdempotent ==
    /\ [](stops >= 1 => p = "None")
    /\ [][(stops' = stops + 1 /\ (stops >= 1 \/ engine = "none"))
             => /\ UNCHANGED <<history, p, engine, p_stdin, p_stdout, p_stderr>>
                /\ outcome' = "return"]_vars

\* C8 witness: a second stop() after an engine was started
C8_Witness == stops = 2 /\ engine # "none" /\ lastop = "stop"

\* C9: stop() returns normally with the handle cleared, whether the engine is
\* alive, has exited or has closed its input pipe when stop() is called.
C9_StopNeverRaises ==
    (op = "idle" /\ lastop = "stop") => (outcome = "return" /\ p = "None")


-----------------------------------------------------------------------------
(* Claims about goto_position *)

\* C11 (replay): goto_position() writes the whole history, in order, as one
\* submission; it returns exactly when it has read as many success markers as the
\* history has entries, and with an empty history it does not wait for the engine.
C11_Replay ==
    /\ (op = "goto_position" \/ (op = "idle" /\ lastop = "goto_position" /\ outcome = "return"))
           => p_stdin[Len(p_stdin)] = history
    /\ (op = "idle" /\ lastop = "goto_position" /\ outcome = "return")
           => sc.markers = Len(history)
    /\ (op = "goto_position" /\ pc \in {"while", "sleep"})
           => sc.markers < Len(history)

-----------------------------------------------------------------------------
(* Further claims about parse *)

\* the text has a line of the given kind
has_line(text, kind) == \E i \in 1..Len(text) : text[i].kind = kind

\* C12 (book fallback): when the error text has a book-move count line and no
\* candidate-move line, parse returns a list of exactly one entry, marked as a book
\* move, at the chosen move of the output text.
C12_BookFallback ==
    (pr.done /\ has_line(pr.stderr, "book") /\ ~has_line(pr.stderr, "cand"))
        => /\ pr.result.raises = "none"
           /\ Len(pr.result.move_list) = 1
           /\ DOMAIN pr.result.move_list[1] = {"pos", "is_book"}
           /\ pr.result.move_list[1].is_book
           /\ has(chosen_of(pr.stdout), "chosen")
           /\ pr.result.move_list[1].pos = chosen_of(pr.stdout)["chosen"]

\* the winrate fields of the stats and of a candidate entry
WinrateKeys == {"winrate", "mc_winrate", "nn_winrate"}

\* record or dict `w` is `b` with every winrate field replaced by its complement
flipped(b, w) ==
    /\ DOMAIN w = DOMAIN b
    /\ \A k \in DOMAIN b : w[k] = IF k \in WinrateKeys THEN One - b[k] ELSE b[k]

\* result `w` is result `b` seen from the other side
flipped_result(b, w) ==
    /\ w.raises = b.raises
    /\ flipped(b.stats, w.stats)
    /\ Len(w.move_list) = Len(b.move_list)
    /\ \A i \in 1..Len(b.move_list) : flipped(b.move_list[i], w.move_list[i])

\* parse has been called on the same texts with black to move and with white to move
ParsedBothWays ==
    /\ pr.done
    /\ "earlier" \in DOMAIN pr
    /\ pr.earlier.turn # whoseturn

\* C13 (perspective flip): parsing the same texts with black to move and with white
\* to move gives the same chosen move, best move, margin, visits, rollout counts,
\* policy probabilities, principal variations and candidate order, and every
\* winrate of the white-to-move result is 1 minus that of the black-to-move result.
C13_PerspectiveFlip ==
    ParsedBothWays
        => IF whoseturn = "white"
           THEN flipped_result(pr.earlier.result, pr.result)
           ELSE flipped_result(pr.result, pr.earlier.result)

\* C13 witness: both results hold aggregate, best-move and candidate winrates, and
\* the black-to-move one is not its own complement
C13_Witness ==
    /\ ParsedBothWays
    /\ whoseturn = "white"
    /\ pr.result.raises = "none"
    /\ has(pr.result.stats, "mc_winrate")
    /\ has(pr.result.stats, "winrate")
    /\ Len(pr.result.move_list) >= 1
    /\ pr.result.move_list[1].winrate = One - to_fraction(Pct(52, 31))
    /\ pr.earlier.result.move_list[1].winrate = to_fraction(Pct(52, 31))
    /\ pr.result.stats["mc_winrate"] = One - 4800

-----------------------------------------------------------------------------
(* Claims about the coordinate conversions *)

\* the engine's reply move of the parsed output text, and its internal coordinate
ReplyMove == pr.stdout[1].pos
ChosenMove == pr.result.stats["chosen"]

\* C14 as stated: for every coordinate of the board, convert_position(parse_position(q))
\* is q for the coordinate q as the engine writes it, and
\* parse_position(convert_position(p)) is p.
C14_RoundTripAsStated ==
    (pr.done /\ has(pr.result.stats, "chosen"))
        => /\ convert_position(ChosenMove) = ReplyMove
           /\ parse_position(convert_position(ChosenMove)) = ChosenMove

\* C14 amended: convert_position(parse_position(q)) is q with its column letter in
\* lower case, and parse_position(convert_position(p)) is p.
C14_RoundTrip ==
    (pr.done /\ has(pr.result.stats, "chosen"))
        => /\ convert_position(ChosenMove) = <<lower(ReplyMove[1]), ReplyMove[2]>>
           /\ parse_position(convert_position(ChosenMove)) = ChosenMove

\* C14 witness: the engine's J1 on a 19 x 19 board is the internal "is", and back
C14_Witness ==
    /\ pr.done
    /\ board_size = 19
    /\ ReplyMove = <<"J", 1>>
    /\ ChosenMove = <<"i", "s">>
    /\ convert_position(ChosenMove) = <<"j", 1>>

-----------------------------------------------------------------------------
(* Further claims about analyze *)

\* what analyze() writes to the engine when nothing is traced
AnalyzeCmds == <<"time_left black", "time_left white", "genmove", "">>

IsPrefix(s, t) == Len(s) <= Len(t) /\ SubSeq(t, 1, Len(s)) = s

\* C15 (verbosity has no behavioural effect): whatever the verbosity, the client
\* writes the same commands to the engine, and analyze() returns what parse
\* returned or raises what parse raised.
C15_VerbosityNoEffect ==
    /\ IsPrefix(p_stdin, StartCmds \o AnalyzeCmds)
    /\ (op = "idle" /\ lastop = "analyze" /\ pr.done)
           => outcome = IF pr.result.raises = "none" THEN "return" ELSE pr.result.raises

-----------------------------------------------------------------------------
(* Claims about passes *)

\* the texts given to parse hold a pass: as the reply move, or in a principal variation
MentionsPass ==
    \/ has_line(pr.stdout, "passmove")
    \/ \E i \in 1..Len(pr.stderr) :
           /\ pr.stderr[i].kind \in {"cand", "best"}
           /\ \E j \in 1..Len(pr.stderr[i].pv) : pr.stderr[i].pv[j] = PassToken

\* C16 (the pass token bypasses coordinate arithmetic in both directions): add_move
\* with an empty or 'tt' position records 'play <color> pass', and a pass from the
\* engine, as the reply move or inside a principal variation, is translated back
\* without an error: parse returns, and a pass reply is the chosen move.
C16_PassBypass ==
    /\ [][\A color \in Colors, pos \in {<<>>, <<"t", "t">>} :
              AddMove(color, pos) => history' = Append(history, PlayCmd(color, PassToken))]_vars
    /\ []((pr.done /\ MentionsPass)
              => /\ pr.result.raises \notin {"ValueError", "IndexError"}
                 /\ has_line(pr.stdout, "passmove") => has(pr.result.stats, "chosen"))

-----------------------------------------------------------------------------
(* Claims about the polling loop *)

IdleBound == PollBase + PollFactor * seconds_per_search

\* an iteration of the polling loop
PollIteration == op = "analyze" /\ pc = "an_poll" /\ an'.iters = an.iters + 1

\* C17 (idle counter): in every poll iteration the idle counter is reset if the
\* error text drained in that iteration holds a progress line, at any position, and
\* is incremented by one otherwise; so the loop is left by the idle bound only after
\* a full bound of iterations in a row that drained no progress line.
C17_IdleCounter ==
    /\ [][PollIteration
              => IF has_line(p_stderr, "progress")
                 THEN an'.updated <= 1
                 ELSE an'.updated = an.updated + 1]_vars
    /\ [](an.timed_out => an.quiet >= IdleBound)

\* analyze() makes its last drain and calls the parser
HandOff == op = "analyze" /\ pc = "an_final" /\ pr'.done

\* C18 (stream hand-off): the output text analyze() gives to the parser is all it
\* drained from the engine's output channel, in drain order, the grace-period drain
\* included, and the error text is all it drained from the error channel; nothing
\* of one channel ends up in the other text.
C18_StreamHandOff ==
    [][HandOff => /\ pr'.stdout = an.stdout \o p_stdout
                  /\ pr'.stderr = an.stderr \o p_stderr]_vars

-----------------------------------------------------------------------------
(* Claims about the scan of the error text *)

\* the smallest element of a set of line numbers, 0 if there is none
first_of(S) == IF S = {} THEN 0 ELSE CHOOSE i \in S : \A j \in S : i <= j
last_of(S) == IF S = {} THEN 0 ELSE CHOOSE i \in S : \A j \in S : i >= j

\* the first banner line, and the first summary line after it
first_banner(text) == first_of({i \in 1..Len(text) : text[i].kind = "banner"})
first_summary(text) ==
    first_of({i \in 1..Len(text) :
                 /\ text[i].kind = "summary"
                 /\ first_banner(text) > 0
                 /\ i > first_banner(text)})

\* the best-move lines after the first banner and before the first summary after it
gated_best(text) ==
    {i \in 1..Len(text) :
        /\ text[i].kind = "best"
        /\ first_banner(text) > 0
        /\ i > first_banner(text)
        /\ first_summary(text) > 0 => i < first_summary(text)}

\* C19 (banner and summary gating): a best-move line or a summary line sets the
\* stats only if a banner line came earlier in the text, and after the first
\* summary line behind the banner no best-move or summary line changes the best
\* move, the winrate or the total visits.
C19_Gating ==
    pr.done
        => /\ pr.result.raises = "none"
           /\ has(pr.result.stats, "visits") <=> first_summary(pr.stderr) > 0
           /\ first_summary(pr.stderr) > 0
                  => pr.result.stats["visits"] = pr.stderr[first_summary(pr.stderr)].visits
           /\ has(pr.result.stats, "best") <=> gated_best(pr.stderr) # {}
           /\ has(pr.result.stats, "winrate") <=> gated_best(pr.stderr) # {}
           /\ gated_best(pr.stderr) # {}
                  => LET line == pr.stderr[last_of(gated_best(pr.stderr))]
                     IN  /\ pr.result.stats["best"] = parse_position(line.pv[1])
                         /\ pr.result.stats["winrate"] = maybe_flip(to_fraction(line.score))

\* C19 witness: the best-move line and the first summary line behind the banner
\* were taken, and the different summary line after them was not
C19_Witness ==
    /\ pr.done
    /\ Len(pr.stderr) = 4
    /\ pr.stderr[1].kind = "banner"
    /\ pr.stderr[2].kind = "best"
    /\ pr.stderr[3].kind = "summary"
    /\ pr.stderr[4].kind = "summary"
    /\ pr.stderr[4].visits # pr.stderr[3].visits
    /\ has(pr.result.stats, "visits")
    /\ pr.result.stats["visits"] = pr.stderr[3].visits
    /\ has(pr.result.stats, "best")
    /\ pr.result.stats["best"] = parse_position(pr.stderr[2].pv[1])
    /\ pr.result.stats["winrate"] = to_fraction(pr.stderr[2].score)

-----------------------------------------------------------------------------
(* Claims about the attribution of acknowledgments *)

\* C20 (acknowledgment attribution): a send_command call returns only when the
\* engine has answered that very command; the answer to an earlier command, read
\* late, is not counted toward a later one.
C20_AckAttribution ==
    (op = "idle" /\ lastop = "send_command" /\ outcome = "return")
        => acked >= Len(p_stdin)

====
